---------------------------- MODULE Spec2Model ----------------------------
(***************************************************************************)
(* Transport resolution and lifecycle clients of deno-infra-client:       *)
(* getLifecycleClient (src/lifecycle/client.ts), the permission probers   *)
(* (src/permissions/*.ts) and the CLI / socket / no-op clients it returns. *)
(*                                                                         *)
(* Text is a sequence of pieces (a literal is one piece, a container id   *)
(* is one piece per character), so template strings are concatenations.   *)
(* Every await of the code is a step boundary; the code between two       *)
(* awaits is one action.  The answers of the runtime (permission queries, *)
(* spawns, exits, HTTP responses) are chosen by \E at the step that       *)
(* receives them and are recorded in the I/O log of the call.             *)
(***************************************************************************)
EXTENDS Integers, Sequences, FiniteSets, TLC

\* Number of client operations started after one resolution.
MaxOps == 2

\* Number of further getLifecycleClient calls after the first one.
MaxRecalls == 1

\* Number of restart calls on one adapter.
MaxRestarts == 2

-----------------------------------------------------------------------------
(* Inputs *)

Host == "Host"

\* ContainerPlatform members used by the tables, plus one value the tables
\* have no entry for (the `default:` / `?? []` branches).
Platforms ==
  { "Host", "Docker", "DockerCgroup", "KubernetesDocker", "Podman", "CRIO",
    "KubernetesCriO", "KubernetesOther", "Containerd", "Rkt", "LXCLXD",
    "SystemdNspawn", "Unmapped" }

OsFamilies == { "linux", "windows" }

ContainerIds == { <<"a", "b", "c">>, <<"a", "/", "b">> }

Images == { <<"nginx:latest">> }

OpNames == { "status", "start", "stop", "create" }

\* Deno.permissions.query: the three PermissionState values, or a rejection.
QueryOutcomes == { "granted", "denied", "prompt", "throws" }

\* new Deno.Command(..).spawn(): a child, or one of the thrown error classes.
SpawnOutcomes == { "spawned", "NotFound", "PermissionDenied", "OtherError" }

\* await proc.status: an exit code, or a rejection.
ExitCodes == { 0, 1 }
WaitOutcomes == { "exit0", "exit1", "waitFailed" }

\* new Deno.Command(..).output(): spawn failure, or an exit code.
OutputOutcomes == { "exit0", "exit1", "NotFound", "PermissionDenied", "OtherError" }

\* Status codes of the responses fetch() resolves with.
HttpStatuses == { 200, 204, 301, 404, 500 }

NoMessage == <<>>
Null == <<>>

-----------------------------------------------------------------------------
(* src/permissions/utils.ts *)

\* Environment of the process when the SOCKET_PATHS table is built.
EnvKUBECONFIG == <<>>
EnvHOME == <<"/root">>
EnvUSERPROFILE == <<>>

getHomeDirectory ==
  IF EnvHOME # <<>> THEN EnvHOME ELSE EnvUSERPROFILE

getKubeConfigPath ==
  IF EnvKUBECONFIG # <<>> THEN EnvKUBECONFIG
  ELSE IF getHomeDirectory # <<>> THEN getHomeDirectory \o <<"/.kube/config">>
  ELSE <<"/home/unknown/.kube/config">>

-----------------------------------------------------------------------------
(* src/lifecycle/builders.ts *)

\* Variant: KubernetesOther is grouped with CRI-O instead of containerd.
getBinName_otherAsCrio(platform) ==
  CASE platform \in {"Docker", "DockerCgroup", "KubernetesDocker"} -> <<"docker">>
    [] platform = "Podman" -> <<"podman">>
    [] platform \in {"CRIO", "KubernetesCriO", "KubernetesOther"} -> <<"crio">>
    [] platform = "Containerd" -> <<"ctr">>
    [] platform = "Rkt" -> <<"rkt">>
    [] platform = "LXCLXD" -> <<"lxc">>
    [] platform = "SystemdNspawn" -> <<"machinectl">>
    [] OTHER -> <<"docker">>

getBinName(platform) ==
  CASE platform \in {"Docker", "DockerCgroup", "KubernetesDocker"} -> <<"docker">>
    [] platform = "Podman" -> <<"podman">>
    [] platform \in {"CRIO", "KubernetesCriO"} -> <<"crio">>
    [] platform \in {"KubernetesOther", "Containerd"} -> <<"ctr">>
    [] platform = "Rkt" -> <<"rkt">>
    [] platform = "LXCLXD" -> <<"lxc">>
    [] platform = "SystemdNspawn" -> <<"machinectl">>
    [] OTHER -> <<"docker">>

statusArgs(platform, id) ==
  CASE platform \in {"Containerd", "KubernetesOther"} -> << <<"containers">>, <<"info">>, id >>
    [] platform = "Rkt" -> << <<"status">>, id >>
    [] platform = "LXCLXD" -> << <<"info">>, id >>
    [] platform = "SystemdNspawn" -> << <<"show">>, id >>
    [] OTHER -> << <<"inspect">>, id >>

startArgs(platform, id) ==
  CASE platform \in {"Containerd", "KubernetesOther"} -> << <<"containers">>, <<"start">>, id >>
    [] platform = "Rkt" -> << <<"run">>, id >>
    [] OTHER -> << <<"start">>, id >>

stopArgs(platform, id) ==
  CASE platform \in {"Containerd", "KubernetesOther"} -> << <<"containers">>, <<"stop">>, id >>
    [] OTHER -> << <<"stop">>, id >>

createArgs(platform, id, image) ==
  CASE platform \in {"CRIO", "KubernetesCriO", "Containerd", "KubernetesOther",
                     "Rkt", "LXCLXD", "SystemdNspawn"} -> Null
    [] OTHER -> << <<"create">>, <<"--name">>, id, image >>

\* The builder of one operation, as CliLifecycleClient calls it.
getArgBuilders(platform, op, id, image) ==
  CASE op = "status" -> statusArgs(platform, id)
    [] op = "start" -> startArgs(platform, id)
    [] op = "stop" -> stopArgs(platform, id)
    [] op = "create" -> createArgs(platform, id, image)

-----------------------------------------------------------------------------
(* src/permissions/constants.ts *)

\* encodeURIComponent on one character: the unreserved characters are kept,
\* every other character becomes its percent escape.
EncodeChar(c) ==
  CASE c = "/" -> "%2F"
    [] c = " " -> "%20"
    [] c = "?" -> "%3F"
    [] c = "&" -> "%26"
    [] OTHER -> c

encodeURIComponent(text) ==
  [i \in 1..Len(text) |-> EncodeChar(text[i])]

NoBody == [Image |-> <<>>]

\* Variant: create puts the name into the query string as it is.
DockerApiRequest_rawName(op, id, image) ==
  CASE op = "status" ->
         [method |-> "GET", url |-> <<"/containers/">> \o id \o <<"/json">>, body |-> NoBody]
    [] op = "start" ->
         [method |-> "POST", url |-> <<"/containers/">> \o id \o <<"/start">>, body |-> NoBody]
    [] op = "stop" ->
         [method |-> "POST", url |-> <<"/containers/">> \o id \o <<"/stop">>, body |-> NoBody]
    [] op = "create" ->
         [method |-> "POST",
          url |-> <<"/containers/create?name=">> \o id,
          body |-> [Image |-> image]]

\* The four request builders of a Docker-Engine-compatible socket entry.
DockerApiRequest(op, id, image) ==
  CASE op = "status" ->
         [method |-> "GET", url |-> <<"/containers/">> \o id \o <<"/json">>, body |-> NoBody]
    [] op = "start" ->
         [method |-> "POST", url |-> <<"/containers/">> \o id \o <<"/start">>, body |-> NoBody]
    [] op = "stop" ->
         [method |-> "POST", url |-> <<"/containers/">> \o id \o <<"/stop">>, body |-> NoBody]
    [] op = "create" ->
         [method |-> "POST",
          url |-> <<"/containers/create?name=">> \o encodeURIComponent(id),
          body |-> [Image |-> image]]

DockerSock == [path |-> <<"/var/run/docker.sock">>, api |-> "docker"]
KubeConfig == [path |-> getKubeConfigPath, api |-> "kubeconfig"]
CrioSock == [path |-> <<"/var/run/crio/crio.sock">>, api |-> "crio"]
ContainerdSock == [path |-> <<"/run/containerd/containerd.sock">>, api |-> "containerd"]

\* SOCKET_PATHS[platform] ?? []
SOCKET_PATHS(platform) ==
  CASE platform \in {"Docker", "DockerCgroup"} -> << DockerSock >>
    [] platform = "KubernetesDocker" -> << DockerSock, KubeConfig >>
    [] platform = "Podman" ->
         << [path |-> <<"/run/podman/podman.sock">>, api |-> "docker"],
            [path |-> <<"/var/run/podman/podman.sock">>, api |-> "docker"] >>
    [] platform = "CRIO" -> << CrioSock >>
    [] platform = "KubernetesCriO" -> << KubeConfig, CrioSock >>
    [] platform = "KubernetesOther" -> << KubeConfig, ContainerdSock >>
    [] platform = "Containerd" -> << ContainerdSock >>
    [] platform = "Rkt" -> << [path |-> <<"/var/lib/rkt">>, api |-> "rkt"] >>
    [] platform = "LXCLXD" ->
         << [path |-> <<"/var/snap/lxd/common/lxd/unix.socket">>, api |-> "lxd"],
            [path |-> <<"/var/lib/lxd/unix.socket">>, api |-> "lxd"] >>
    [] OTHER -> << >>

\* info.operations[op](id, image): a request descriptor, or a thrown Error.
SocketOperation(info, op, id, image) ==
  IF info.api = "docker"
  THEN [throws |-> FALSE, request |-> DockerApiRequest(op, id, image)]
  ELSE [throws |-> TRUE,
        request |-> [method |-> "", url |-> <<>>, body |-> NoBody]]

-----------------------------------------------------------------------------
(* Permission entries: src/permissions/types.ts *)

PermissionEntry(name, state, path, message) ==
  [name |-> name, state |-> state, path |-> path, message |-> message]

NoPath == <<>>
NoEntry == PermissionEntry(<<>>, "none", NoPath, NoMessage)

\* String(err) of a caught error.
StringOfErr(err) == <<"String(", err, ")">>

\* Variant: an undecided permission counts as granted.
checkRunPermission_promptPasses(q) ==
  IF q = "throws"
  THEN PermissionEntry(<<"run">>, "error", NoPath, StringOfErr("queryError"))
  ELSE PermissionEntry(<<"run">>, IF q \in { "granted", "prompt" } THEN "granted" ELSE "denied",
                       NoPath, NoMessage)

(* src/permissions/run.ts: checkRunPermission, given the answer of
   Deno.permissions.query({ name: "run" }) *)
checkRunPermission(q) ==
  IF q = "throws"
  THEN PermissionEntry(<<"run">>, "error", NoPath, StringOfErr("queryError"))
  ELSE PermissionEntry(<<"run">>, IF q = "granted" THEN "granted" ELSE "denied",
                       NoPath, NoMessage)

\* Variant: the path is left out of an error entry.
checkReadPermission_noPathOnError(p, q) ==
  IF q = "throws"
  THEN PermissionEntry(<<"read">>, "error", NoPath, StringOfErr("queryError"))
  ELSE PermissionEntry(<<"read">>, IF q = "granted" THEN "granted" ELSE "denied",
                       p, NoMessage)

(* src/permissions/read.ts: one iteration of the loop of checkReadPermissions,
   given the answer of Deno.permissions.query({ name: "read", path }) *)
checkReadPermission(p, q) ==
  IF q = "throws"
  THEN PermissionEntry(<<"read">>, "error", p, StringOfErr("queryError"))
  ELSE PermissionEntry(<<"read">>, IF q = "granted" THEN "granted" ELSE "denied",
                       p, NoMessage)

(* src/lifecycle/utils.ts: isExecutable, given what spawning `bin --help`
   and waiting for it did *)
IsExecutableOutcomes ==
  { "exit0", "exit1", "waitFailed", "NotFound", "PermissionDenied", "OtherError" }

\* Variant: a PermissionDenied spawn also counts as absent.
isExecutable_strict(o) == o \notin { "NotFound", "PermissionDenied" }

isExecutable(o) == o # "NotFound"

-----------------------------------------------------------------------------
(* src/permissions/command.ts: checkCommandCapability *)

RECURSIVE JoinArgs(_)
\* args.join(" ")
JoinArgs(args) ==
  IF args = <<>> THEN <<>>
  ELSE IF Len(args) = 1 THEN args[1]
  ELSE args[1] \o <<" ">> \o JoinArgs(Tail(args))

\* `${bin} ${args.join(" ")}`
CapabilityName(bin, args) == bin \o <<" ">> \o JoinArgs(args)

DenoExecPath == <<"Deno.execPath()">>

\* The command the probe spawns: new Deno.Command(Deno.execPath(), { args: [bin, ...args] })
ProbeCommand(bin, args) == [program |-> DenoExecPath, args |-> <<bin>> \o args]

\* The verdict of the run-permission re-check, NoEntry when the check passes.
CapabilityRunCheck(bin, args, q) ==
  IF q = "throws"
  THEN PermissionEntry(CapabilityName(bin, args), "error", NoPath,
                       <<"failed to query run permission: ">> \o <<"queryError">>)
  ELSE IF q # "granted"
  THEN PermissionEntry(CapabilityName(bin, args), "denied", NoPath,
                       <<"run permission not granted">>)
  ELSE NoEntry

\* Variant: NotFound and PermissionDenied are swapped.
CapabilitySpawnFailure_swapped(bin, args, sp) ==
  CASE sp = "PermissionDenied" ->
         PermissionEntry(CapabilityName(bin, args), "unavailable", NoPath, NoMessage)
    [] sp = "NotFound" ->
         PermissionEntry(CapabilityName(bin, args), "denied", NoPath,
                         <<"permission denied to run subprocess">>)
    [] OTHER ->
         PermissionEntry(CapabilityName(bin, args), "error", NoPath, StringOfErr(sp))

\* The verdict when spawn() throws.
CapabilitySpawnFailure(bin, args, sp) ==
  CASE sp = "NotFound" ->
         PermissionEntry(CapabilityName(bin, args), "unavailable", NoPath, NoMessage)
    [] sp = "PermissionDenied" ->
         PermissionEntry(CapabilityName(bin, args), "denied", NoPath,
                         <<"permission denied to run subprocess">>)
    [] OTHER ->
         PermissionEntry(CapabilityName(bin, args), "error", NoPath, StringOfErr(sp))

\* The verdict after `await proc.status`.
CapabilityExitVerdict(bin, args, w) ==
  IF w = "waitFailed"
  THEN PermissionEntry(CapabilityName(bin, args), "error", NoPath, StringOfErr(w))
  ELSE PermissionEntry(CapabilityName(bin, args),
                       IF w = "exit0" THEN "granted" ELSE "error", NoPath, NoMessage)

-----------------------------------------------------------------------------
(* src/lifecycle/utils.ts: runSubprocess; src/lifecycle/client.ts: results *)

CommandOutput(code, success, stdout, stderr) ==
  [code |-> code, success |-> success, stdout |-> stdout, stderr |-> stderr]

NoResult == CommandOutput(-1, FALSE, "none", "none")

\* The command runSubprocess spawns: new Deno.Command(program, { args })
RealCommand(program, args) == [program |-> program, args |-> args]

\* What `.output()` resolves with when the child exits.
runSubprocess(o) ==
  CommandOutput(IF o = "exit0" THEN 0 ELSE 1, o = "exit0", "piped", "piped")

ResponseOk(status) == status >= 200 /\ status <= 299

\* Variant: the code is 0 whatever the status.
httpToCommandOutput_zeroCode(status) ==
  CommandOutput(0, ResponseOk(status), "bodyBytes", "empty")

\* Variant: the code is the HTTP status also for an ok response.
httpToCommandOutput_rawStatus(status) ==
  CommandOutput(status, ResponseOk(status), "bodyBytes", "empty")

httpToCommandOutput(status) ==
  CommandOutput(IF ResponseOk(status) THEN 0 ELSE status, ResponseOk(status),
                "bodyBytes", "empty")

\* Variant: the no-op client reports a failure.
noop_failing == CommandOutput(1, FALSE, "empty", "empty")

\* The result of every operation of the no-op client.
noop == CommandOutput(0, TRUE, "empty", "empty")

ErrorValue(kind, state, message) ==
  [kind |-> kind, state |-> state, message |-> message]

NoError == ErrorValue("none", "none", NoMessage)

-----------------------------------------------------------------------------
(* I/O events *)

PermQueryEv(name, path, answer) ==
  [ev |-> "permQuery", name |-> name, path |-> path, answer |-> answer]

SpawnEv(by, cmd, answer) ==
  [ev |-> "spawn", by |-> by, program |-> cmd.program, args |-> cmd.args,
   answer |-> answer]

WaitEv(by, answer) == [ev |-> "wait", by |-> by, answer |-> answer]

KillEv(by) == [ev |-> "kill", by |-> by]

BodyEv(ok) == [ev |-> "body", ok |-> ok]

FetchEv(sockPath, request, hasBody, answer) ==
  [ev |-> "fetch", path |-> sockPath, method |-> request.method,
   url |-> <<"http://localhost">> \o request.url,
   body |-> request.body, hasBody |-> hasBody, answer |-> answer]

\* fetch(): a response with a status, or a rejection (no response).
FetchOutcomes ==
  { [responded |-> TRUE, status |-> st] : st \in HttpStatuses }
    \cup { [responded |-> FALSE, status |-> 0] }

Events(log, kind) == { i \in 1..Len(log) : log[i].ev = kind }

-----------------------------------------------------------------------------
(* src/clients/mod.ts: clientFactory *)

\* The two variants of the module: the first registers CrioClient for
\* Runtime.Crio, the unified one does not.
FactoryVariants == { "registersCrio", "unified" }

\* PlatformType members, plus one value the switch has no case for.
PlatformTypes == { "Kubernetes", "Standalone", "Host", "UnknownType" }

\* Runtime members, plus one value the switch has no case for.
Runtimes == { "Docker", "Podman", "Crio", "Containerd", "LXC", "UnknownRuntime" }

NoClass == "none"

\* Variant: the Host platform gets a client that does nothing.
clientClass_hostNoop(variant, ptype, runtime) ==
  CASE ptype = "Kubernetes" -> "KubernetesClient"
    [] ptype = "Standalone" ->
         ( CASE runtime = "Docker" -> "DockerClient"
             [] runtime = "Podman" -> "PodmanClient"
             [] runtime = "Crio" /\ variant = "registersCrio" -> "CrioClient"
             [] runtime = "Containerd" -> "ContainerdClient"
             [] runtime = "LXC" -> "LxdClient"
             [] OTHER -> NoClass )
    [] ptype = "Host" -> "NoopClient"
    [] OTHER -> NoClass

\* mod.ts:28-62, 88-115  the class the two switches select, NoClass when a
\* throw is selected
clientClass(variant, ptype, runtime) ==
  CASE ptype = "Kubernetes" -> "KubernetesClient"
    [] ptype = "Standalone" ->
         ( CASE runtime = "Docker" -> "DockerClient"
             [] runtime = "Podman" -> "PodmanClient"
             [] runtime = "Crio" /\ variant = "registersCrio" -> "CrioClient"
             [] runtime = "Containerd" -> "ContainerdClient"
             [] runtime = "LXC" -> "LxdClient"
             [] OTHER -> NoClass )
    [] OTHER -> NoClass

\* mod.ts:49-61, 103-114  the message of the selected throw
factoryMessage(ptype, runtime) ==
  CASE ptype = "Standalone" -> <<"Unsupported standalone runtime: ", runtime>>
    [] ptype = "Host" -> <<"Host platform detected; no container runtime client available.">>
    [] OTHER -> <<"Unsupported platform type: ", ptype>>

(* src/clients/utils/grpc.ts: createGrpcClient, given what loading the proto
   file and looking the service constructor up did *)
GrpcLoadOutcomes == { "loaded", "protoLoadFails", "serviceNotFound" }

\* crio.ts:39-48, containerd.ts:31-41  the constructors that call createGrpcClient
UsesGrpc(class) == class \in { "CrioClient", "ContainerdClient" }

\* new <class>(opts): the constructor returns, or createGrpcClient throws
ConstructorThrows(class, g) == UsesGrpc(class) /\ g # "loaded"

ConstructorError(g) ==
  IF g = "serviceNotFound"
  THEN <<"Service constructor not found for path ">>
  ELSE StringOfErr(g)

-----------------------------------------------------------------------------
(* src/clients/lxc.ts, crio.ts, lxd.ts: stop, start and restart *)

\* The adapters whose restart is `await this.stop(id); return this.start(id)`.
RestartComposers == { "LxcClient", "CrioClient", "LxdClient" }

AdapterIds == { <<"c1">>, <<"c2">> }

\* What the engine sends back with a successful call.
Payloads == { "p1", "p2" }

\* What a stop or start gives: a resolved value, or a rejection.
Settled(ok, value, error) == [ok |-> ok, value |-> value, error |-> error]

NoSettled == Settled(FALSE, "none", NoMessage)

\* lxc.ts:18-35  runCommand, given what command.output() did
runCommand(o, payload) ==
  CASE o = "exit0" -> Settled(TRUE, payload, NoMessage)
    [] o = "exit1" -> Settled(FALSE, "none", <<"Command failed with code ", "1", ": ", payload>>)
    [] OTHER -> Settled(FALSE, "none", StringOfErr(o))

\* grpc.ts: grpcRequest, given the callback's err
GrpcAnswers == { "response", "err" }

grpcRequest(a, payload) ==
  IF a = "err" THEN Settled(FALSE, "none", StringOfErr("grpcError"))
  ELSE Settled(TRUE, payload, NoMessage)

\* utils/http.ts:20-58  httpRequest, given what fetch and the body did
HttpAnswers ==
  { [responded |-> TRUE, status |-> st, bodyRead |-> b] :
      st \in { 200, 404 }, b \in BOOLEAN }
    \cup { [responded |-> FALSE, status |-> 0, bodyRead |-> FALSE] }

httpRequest(a, payload) ==
  IF ~a.responded THEN Settled(FALSE, "none", StringOfErr("fetchError"))
  ELSE IF ~ResponseOk(a.status)
  THEN Settled(FALSE, "none", <<"HTTP API error: ", ToString(a.status)>>)
  ELSE IF ~a.bodyRead THEN Settled(FALSE, "none", StringOfErr("bodyError"))
  ELSE Settled(TRUE, payload, NoMessage)

\* The answers the runtime can give to a stop or start of the adapter.
AdapterAnswers(class) ==
  CASE class = "LxcClient" -> [kind : {"cmd"}, a : OutputOutcomes, payload : Payloads]
    [] class = "CrioClient" -> [kind : {"grpc"}, a : GrpcAnswers, payload : Payloads]
    [] OTHER -> [kind : {"http"}, a : HttpAnswers, payload : Payloads]

SettledBy(answer) ==
  CASE answer.kind = "cmd" -> runCommand(answer.a, answer.payload)
    [] answer.kind = "grpc" -> grpcRequest(answer.a, answer.payload)
    [] OTHER -> httpRequest(answer.a, answer.payload)

\* What stop(id) and start(id) issue: the command, the RPC or the request.
AdapterRequest(class, op, id) ==
  CASE class = "LxcClient" ->
         << IF op = "stop" THEN "lxc-stop" ELSE "lxc-start", "-n" >> \o id
    [] class = "CrioClient" ->
         << IF op = "stop" THEN "StopContainer" ELSE "StartContainer", "container_id" >> \o id
    [] OTHER ->
         << "PUT", "/1.0/containers/" >> \o id \o << "/state", "action", op >>

InvokeEv(op, request) == [ev |-> "invoke", op |-> op, request |-> request]

SettleEv(op, answer) == [ev |-> "settle", op |-> op, answer |-> answer]

NoAdapter ==
  [pc |-> "idle", variant |-> "none", ptype |-> "none", runtime |-> "none",
   selected |-> NoClass, class |-> NoClass, grpc |-> "none", outcome |-> "none", error |-> NoMessage,
   restarts |-> 0, id |-> <<>>, log |-> <<>>, restart |-> "none", result |-> NoSettled]

-----------------------------------------------------------------------------
(* State *)

VARIABLES
  os,          \* Deno.build.os
  rpc,         \* position of the getLifecycleClient call
  platform,    \* its argument
  runPerm,     \* its local runPerm
  readEntries, \* the results array of checkReadPermissions
  binProbe,    \* what the isExecutable probe did ("none" before it ran)
  resLog,      \* I/O performed by the getLifecycleClient call
  resolved,    \* how the call ended: returned a client or threw
  client,      \* the LifecycleClient it returned
  calls,       \* per slot: the operation in progress on the client
  opsStarted,  \* number of operations started on the client
  hist,        \* history: what the previous operation and resolution did
  adapter      \* the clientFactory call, or an adapter and the restart in progress on it

vars ==
  << os, rpc, platform, runPerm, readEntries, binProbe, resLog, resolved,
     client, calls, opsStarted, hist, adapter >>

resVars == << rpc, platform, runPerm, readEntries, binProbe, resLog, resolved, client >>

Slots == { 1 }

NoInfo == [path |-> <<>>, api |-> "none"]

NoClient == [kind |-> "none", platform |-> "none", binName |-> <<>>, info |-> NoInfo]

NoRequest == [method |-> "", url |-> <<>>, body |-> NoBody]

IdleCall ==
  [pc |-> "idle", op |-> "none", id |-> <<>>, image |-> <<>>, args |-> <<>>,
   request |-> NoRequest, permCheck |-> NoEntry, httpStatus |-> 0,
   outcome |-> "none", result |-> NoResult, error |-> NoError, log |-> <<>>]

\* What is remembered of a finished operation.
Summary(c) ==
  [args |-> c.args, verdict |-> c.permCheck.state, outcome |-> c.outcome,
   success |-> c.result.success]

NoHist == [prev |-> Summary(IdleCall), recalls |-> 0, prevRun |-> "none"]

Init ==
  /\ hist = NoHist
  /\ adapter = NoAdapter
  /\ os \in OsFamilies
  /\ rpc = "idle"
  /\ platform = "none"
  /\ runPerm = NoEntry
  /\ readEntries = <<>>
  /\ binProbe = "none"
  /\ resLog = <<>>
  /\ resolved = [outcome |-> "none", error |-> NoError]
  /\ client = NoClient
  /\ calls = [s \in Slots |-> IdleCall]
  /\ opsStarted = 0

-----------------------------------------------------------------------------
(* src/lifecycle/client.ts: getLifecycleClient *)

\* Variant: only a failed query blocks, a denied permission falls through.
RunPermBlocks_onlyError(entry) == entry.state = "error"

\* run.ts:233  if (runPerm.state !== "granted") throw
RunPermBlocks(entry) == entry.state # "granted"

\* Variant: a granted candidate whose operations are stubs is skipped.
ReadableInfos_skipStubs(candidateInfos, entries) ==
  LET idx == SelectSeq([i \in 1..Len(entries) |-> i],
                       LAMBDA i : entries[i].state = "granted"
                                    /\ candidateInfos[i].api = "docker")
  IN [k \in 1..Len(idx) |-> candidateInfos[idx[k]]]

\* Variant: a candidate counts as readable unless its query failed.
ReadableInfos_notError(candidateInfos, entries) ==
  LET idx == SelectSeq([i \in 1..Len(entries) |-> i],
                       LAMBDA i : entries[i].state # "error")
  IN [k \in 1..Len(idx) |-> candidateInfos[idx[k]]]

\* run.ts:245-250  the SocketPathInfo of every entry whose state is granted
ReadableInfos(candidateInfos, entries) ==
  LET idx == SelectSeq([i \in 1..Len(entries) |-> i],
                       LAMBDA i : entries[i].state = "granted")
  IN [k \in 1..Len(idx) |-> candidateInfos[idx[k]]]

\* Variant: the last readable candidate instead of the first.
SelectedSocketInfo_last(readableInfos) == readableInfos[Len(readableInfos)]

\* run.ts:270  const selectedSocketInfo = readableInfos[0]
SelectedSocketInfo(readableInfos) == readableInfos[1]

\* Variant: a readable socket is preferred to the binary.
SelectTransport_socketFirst(p, binExists, readableInfos) ==
  IF Len(readableInfos) > 0
  THEN [kind |-> "socket", platform |-> p, binName |-> <<>>,
        info |-> SelectedSocketInfo(readableInfos)]
  ELSE IF binExists
  THEN [kind |-> "cli", platform |-> p, binName |-> getBinName(p), info |-> NoInfo]
  ELSE NoClient

\* run.ts:257-271  the client returned, or NoClient when the call throws
SelectTransport(p, binExists, readableInfos) ==
  IF binExists
  THEN [kind |-> "cli", platform |-> p, binName |-> getBinName(p), info |-> NoInfo]
  ELSE IF ~(Len(readableInfos) > 0)
  THEN NoClient
  ELSE [kind |-> "socket", platform |-> p, binName |-> <<>>,
        info |-> SelectedSocketInfo(readableInfos)]

\* run.ts:214-229  Host gets the no-op client without any probe
getLifecycleClient_call(p) ==
  /\ rpc = "idle"
  /\ platform' = p
  /\ IF p = Host
     THEN /\ rpc' = "done"
          /\ client' = [kind |-> "noop", platform |-> p, binName |-> <<>>, info |-> NoInfo]
          /\ resolved' = [outcome |-> "returned", error |-> NoError]
     ELSE /\ rpc' = "runPerm"
          /\ UNCHANGED << client, resolved >>
  /\ UNCHANGED << os, runPerm, readEntries, binProbe, resLog, calls, opsStarted >>

\* run.ts:232-243  await checkRunPermission(), the gate, then checkReadPermissions is entered
getLifecycleClient_runPerm ==
  /\ rpc = "runPerm"
  /\ \E q \in QueryOutcomes :
       LET entry == checkRunPermission(q) IN
       /\ runPerm' = entry
       /\ resLog' = Append(resLog, PermQueryEv("run", NoPath, q))
       /\ IF RunPermBlocks(entry)
          THEN /\ rpc' = "done"
               /\ resolved' = [outcome |-> "threw",
                               error |-> ErrorValue("RunPermission", entry.state, entry.message)]
          ELSE /\ rpc' = "read"
               /\ UNCHANGED resolved
  /\ UNCHANGED << os, platform, readEntries, binProbe, client, calls, opsStarted >>

CandidatePaths(p) == [i \in 1..Len(SOCKET_PATHS(p)) |-> SOCKET_PATHS(p)[i].path]

\* Variant: on Windows every candidate path is reported readable.
checkReadPermissions_windows_allGranted ==
  /\ rpc = "read"
  /\ os = "windows"
  /\ readEntries' = [i \in 1..Len(CandidatePaths(platform)) |->
                       checkReadPermission(CandidatePaths(platform)[i], "granted")]
  /\ rpc' = "bin"
  /\ UNCHANGED << os, platform, runPerm, binProbe, resLog, resolved, client, calls, opsStarted >>

\* read.ts:40-42  on Windows no path is queried
checkReadPermissions_windows ==
  /\ rpc = "read"
  /\ os = "windows"
  /\ readEntries' = <<>>
  /\ rpc' = "bin"
  /\ UNCHANGED << os, platform, runPerm, binProbe, resLog, resolved, client, calls, opsStarted >>

\* read.ts:45-61  one iteration of the loop
checkReadPermissions_query ==
  /\ rpc = "read"
  /\ os # "windows"
  /\ Len(readEntries) < Len(CandidatePaths(platform))
  /\ \E q \in QueryOutcomes :
       LET path == CandidatePaths(platform)[Len(readEntries) + 1] IN
       /\ readEntries' = Append(readEntries, checkReadPermission(path, q))
       /\ resLog' = Append(resLog, PermQueryEv("read", path, q))
  /\ UNCHANGED << os, rpc, platform, runPerm, binProbe, resolved, client, calls, opsStarted >>

\* read.ts:62  return results
checkReadPermissions_return ==
  /\ rpc = "read"
  /\ os # "windows"
  /\ Len(readEntries) = Len(CandidatePaths(platform))
  /\ rpc' = "bin"
  /\ UNCHANGED << os, platform, runPerm, readEntries, binProbe, resLog, resolved, client,
                  calls, opsStarted >>

\* Variant: the message does not name the binary.
NothingReachableMessage_anonymous(binName, p) ==
  <<"Neither binary found nor any socket is readable for ">> \o <<p>>

\* run.ts:265  `Neither binary "${binName}" found nor any socket is readable for ${platform}`
NothingReachableMessage(binName, p) ==
  <<"Neither binary \"">> \o binName
    \o <<"\" found nor any socket is readable for ">> \o <<p>>

\* run.ts:254-271  await isExecutable(binName), then the choice of the transport
getLifecycleClient_select ==
  /\ rpc = "bin"
  /\ \E o \in IsExecutableOutcomes :
       LET binName == getBinName(platform)
           chosen == SelectTransport(platform, isExecutable(o),
                                     ReadableInfos(SOCKET_PATHS(platform), readEntries))
       IN
       /\ binProbe' = o
       /\ resLog' = Append(resLog,
                           SpawnEv("isExecutable", RealCommand(binName, << <<"--help">> >>), o))
       /\ client' = chosen
       /\ resolved' = IF chosen.kind = "none"
                      THEN [outcome |-> "threw",
                            error |-> ErrorValue("NothingReachable", "none",
                                       NothingReachableMessage(binName, platform))]
                      ELSE [outcome |-> "returned", error |-> NoError]
  /\ rpc' = "done"
  /\ UNCHANGED << os, platform, runPerm, readEntries, calls, opsStarted >>

-----------------------------------------------------------------------------
(* src/lifecycle/client.ts: the operations of the three clients *)

CanStart(s) ==
  /\ rpc = "done"
  /\ calls[s].pc \in { "idle", "done" }
  /\ opsStarted < MaxOps

\* Variant: the record of the previous operation is reused for the next one.
NewCall_stale(op, id, image) ==
  [calls[1] EXCEPT !.pc = "idle", !.outcome = "none", !.op = op, !.id = id,
                   !.image = image]

NewCall(op, id, image) ==
  [IdleCall EXCEPT !.op = op, !.id = id, !.image = image]

Returned(c, result) ==
  [c EXCEPT !.pc = "done", !.outcome = "returned", !.result = result]

Threw(c, error) ==
  [c EXCEPT !.pc = "done", !.outcome = "threw", !.error = error]

\* run.ts:215-221  every operation of the no-op client
Noop_call(s, op, id, image) ==
  /\ CanStart(s)
  /\ client.kind = "noop"
  /\ calls' = [calls EXCEPT ![s] = Returned(NewCall(op, id, image), noop)]
  /\ opsStarted' = opsStarted + 1
  /\ UNCHANGED << os, resVars >>

\* Variant: the null check of create is missing.
CreateUnsupported_unchecked(op, args) == FALSE

\* run.ts:124  if (!args) throw
CreateUnsupported(op, args) == op = "create" /\ args = Null

\* Variant: only a denied verdict stops the operation.
CapabilityBlocks_onlyDenied(permCheck) == permCheck.state = "denied"

\* run.ts:86,98,110,130  if (permCheck.state !== "granted") throw
CapabilityBlocks(permCheck) == permCheck.state # "granted"

\* Variant: a CLI operation whose probe is not granted falls back to a request.
CliGate_socketFallback(c, permCheck) ==
  IF CapabilityBlocks(permCheck)
  THEN [c EXCEPT !.permCheck = permCheck, !.pc = "fetch"]
  ELSE [c EXCEPT !.permCheck = permCheck, !.pc = "run"]

\* The caller's gate on the verdict of checkCommandCapability.
CliGate(c, permCheck) ==
  IF CapabilityBlocks(permCheck)
  THEN Threw([c EXCEPT !.permCheck = permCheck],
             ErrorValue("CapabilityNotGranted", permCheck.state, permCheck.message))
  ELSE [c EXCEPT !.permCheck = permCheck, !.pc = "run"]

\* run.ts:83-85,95-97,107-109,119-129  build the args, enter checkCommandCapability
Cli_call(s, op, id, image) ==
  /\ CanStart(s)
  /\ client.kind = "cli"
  /\ LET args == getArgBuilders(client.platform, op, id, image)
         c == [NewCall(op, id, image) EXCEPT !.args = args]
     IN calls' = [calls EXCEPT ![s] =
                    IF CreateUnsupported(op, args)
                    THEN Threw(c, ErrorValue("UnsupportedOperation", "none",
                                             <<"Create-container not supported on platform ">>
                                               \o <<client.platform>>))
                    ELSE [c EXCEPT !.pc = "capability"]]
  /\ opsStarted' = opsStarted + 1
  /\ UNCHANGED << os, resVars >>

\* Variant: a granted verdict of the previous operation for the same
\* argument vector is reused, and no probe is made.
checkCommandCapability_spawn_cached(s) ==
  /\ calls[s].pc = "capability"
  /\ \E q \in QueryOutcomes, sp \in SpawnOutcomes :
       LET c == calls[s]
           bin == client.binName
           check == CapabilityRunCheck(bin, c.args, q)
           c1 == [c EXCEPT !.log = Append(@, PermQueryEv("run", NoPath, q))]
           c2 == [c1 EXCEPT !.log = Append(@, SpawnEv("probe", ProbeCommand(bin, c.args), sp))]
       IN calls' = [calls EXCEPT ![s] =
                      IF hist.prev.verdict = "granted" /\ hist.prev.args = c.args
                      THEN CliGate(c, PermissionEntry(CapabilityName(bin, c.args),
                                                      "granted", NoPath, NoMessage))
                      ELSE IF check # NoEntry THEN CliGate(c1, check)
                      ELSE IF sp # "spawned"
                      THEN CliGate(c2, CapabilitySpawnFailure(bin, c.args, sp))
                      ELSE [c2 EXCEPT !.pc = "capWait"]]
  /\ UNCHANGED << os, resVars, opsStarted >>

\* command.ts:20-65  the run-permission re-check, then spawn()
checkCommandCapability_spawn(s) ==
  /\ calls[s].pc = "capability"
  /\ \E q \in QueryOutcomes, sp \in SpawnOutcomes :
       LET c == calls[s]
           bin == client.binName
           check == CapabilityRunCheck(bin, c.args, q)
           c1 == [c EXCEPT !.log = Append(@, PermQueryEv("run", NoPath, q))]
           c2 == [c1 EXCEPT !.log = Append(@, SpawnEv("probe", ProbeCommand(bin, c.args), sp))]
       IN calls' = [calls EXCEPT ![s] =
                      IF check # NoEntry THEN CliGate(c1, check)
                      ELSE IF sp # "spawned"
                      THEN CliGate(c2, CapabilitySpawnFailure(bin, c.args, sp))
                      ELSE [c2 EXCEPT !.pc = "capWait"]]
  /\ UNCHANGED << os, resVars, opsStarted >>

\* command.ts:68-84  await proc.status, the verdict, and the caller's gate
checkCommandCapability_wait(s) ==
  /\ calls[s].pc = "capWait"
  /\ \E w \in WaitOutcomes :
       LET c == calls[s]
           c0 == [c EXCEPT !.log = Append(@, WaitEv("probe", w))]
           c1 == IF w = "waitFailed"
                 THEN [c0 EXCEPT !.log = Append(@, KillEv("probe"))]
                 ELSE c0
       IN calls' = [calls EXCEPT ![s] =
                      CliGate(c1, CapabilityExitVerdict(client.binName, c.args, w))]
  /\ UNCHANGED << os, resVars, opsStarted >>

\* Variant: the argument vector is a field shared by the operations of the
\* client, so the subprocess gets the vector another operation in progress built.
runSubprocess_output_sharedArgs(s) ==
  /\ calls[s].pc = "run"
  /\ \E o \in OutputOutcomes :
       LET c == calls[s]
           others == { t \in DOMAIN calls : t # s /\ calls[t].pc \notin { "idle", "done" } }
           args == IF others = {} THEN c.args ELSE calls[CHOOSE t \in others : TRUE].args
           c1 == [c EXCEPT !.log =
                    Append(@, SpawnEv("runSubprocess", RealCommand(client.binName, args), o))]
       IN calls' = [calls EXCEPT ![s] =
                      IF o \in { "exit0", "exit1" }
                      THEN Returned(c1, runSubprocess(o))
                      ELSE Threw(c1, ErrorValue("SpawnError", o, StringOfErr(o)))]
  /\ UNCHANGED << os, resVars, opsStarted >>

\* run.ts:92,104,116,136 and utils.ts:30-39  return await runSubprocess(binName, args)
runSubprocess_output(s) ==
  /\ calls[s].pc = "run"
  /\ \E o \in OutputOutcomes :
       LET c == calls[s]
           c1 == [c EXCEPT !.log =
                    Append(@, SpawnEv("runSubprocess", RealCommand(client.binName, c.args), o))]
       IN calls' = [calls EXCEPT ![s] =
                      IF o \in { "exit0", "exit1" }
                      THEN Returned(c1, runSubprocess(o))
                      ELSE Threw(c1, ErrorValue("SpawnError", o, StringOfErr(o)))]
  /\ UNCHANGED << os, resVars, opsStarted >>

\* run.ts:161,170,179,191  look the request up; a stub builder throws
Socket_call(s, op, id, image) ==
  /\ CanStart(s)
  /\ client.kind = "socket"
  /\ LET built == SocketOperation(client.info, op, id, image)
         c == NewCall(op, id, image)
     IN calls' = [calls EXCEPT ![s] =
                    IF built.throws
                    THEN Threw(c, ErrorValue("UnsupportedOperation", "none",
                                             <<"Socket-based ", op, " not supported">>))
                    ELSE [c EXCEPT !.request = built.request, !.pc = "fetch"]]
  /\ opsStarted' = opsStarted + 1
  /\ UNCHANGED << os, resVars >>

\* Variant: a request that got no response is issued once more.
Socket_fetch_retry(s) ==
  /\ calls[s].pc = "fetch"
  /\ \E answer \in FetchOutcomes :
       LET c == calls[s]
           c1 == [c EXCEPT !.log =
                    Append(@, FetchEv(client.info.path, c.request, c.op = "create", answer))]
       IN calls' = [calls EXCEPT ![s] =
                      IF answer.responded
                      THEN [c1 EXCEPT !.pc = "body", !.httpStatus = answer.status]
                      ELSE IF Len(c.log) = 0
                      THEN c1
                      ELSE Threw(c1, ErrorValue("TransportError", "none",
                                                StringOfErr("fetchError")))]
  /\ UNCHANGED << os, resVars, opsStarted >>

\* run.ts:162-165,171-174,180-183,192-197  await fetch(...)
Socket_fetch(s) ==
  /\ calls[s].pc = "fetch"
  /\ \E answer \in FetchOutcomes :
       LET c == calls[s]
           c1 == [c EXCEPT !.log =
                    Append(@, FetchEv(client.info.path, c.request, c.op = "create", answer))]
       IN calls' = [calls EXCEPT ![s] =
                      IF answer.responded
                      THEN [c1 EXCEPT !.pc = "body", !.httpStatus = answer.status]
                      ELSE Threw(c1, ErrorValue("TransportError", "none",
                                                StringOfErr("fetchError")))]
  /\ UNCHANGED << os, resVars, opsStarted >>

\* run.ts:39-52  await response.arrayBuffer(), then the CommandOutput
httpToCommandOutput_body(s) ==
  /\ calls[s].pc = "body"
  /\ \E bodyRead \in BOOLEAN :
       LET c == [calls[s] EXCEPT !.log = Append(@, BodyEv(bodyRead))]
       IN calls' = [calls EXCEPT ![s] =
                      IF bodyRead
                      THEN Returned(c, httpToCommandOutput(c.httpStatus))
                      ELSE Threw(c, ErrorValue("TransportError", "none",
                                               StringOfErr("bodyError")))]
  /\ UNCHANGED << os, resVars, opsStarted >>

-----------------------------------------------------------------------------
(* Specification *)

\* One resolution and the operations on its client; no history is kept.
Next ==
  \/ \E p \in Platforms : getLifecycleClient_call(p) /\ UNCHANGED << hist, adapter >>
  \/ getLifecycleClient_runPerm /\ UNCHANGED << hist, adapter >>
  \/ checkReadPermissions_windows /\ UNCHANGED << hist, adapter >>
  \/ checkReadPermissions_query /\ UNCHANGED << hist, adapter >>
  \/ checkReadPermissions_return /\ UNCHANGED << hist, adapter >>
  \/ getLifecycleClient_select /\ UNCHANGED << hist, adapter >>
  \/ \E s \in Slots, op \in OpNames, id \in ContainerIds, image \in Images :
       \/ Noop_call(s, op, id, image) /\ UNCHANGED << hist, adapter >>
       \/ Cli_call(s, op, id, image) /\ UNCHANGED << hist, adapter >>
       \/ Socket_call(s, op, id, image) /\ UNCHANGED << hist, adapter >>
  \/ \E s \in Slots :
       \/ checkCommandCapability_spawn(s) /\ UNCHANGED << hist, adapter >>
       \/ checkCommandCapability_wait(s) /\ UNCHANGED << hist, adapter >>
       \/ runSubprocess_output(s) /\ UNCHANGED << hist, adapter >>
       \/ Socket_fetch(s) /\ UNCHANGED << hist, adapter >>
       \/ httpToCommandOutput_body(s) /\ UNCHANGED << hist, adapter >>

Spec == Init /\ [][Next]_vars

\* A further getLifecycleClient call: its locals are fresh, and it runs like
\* the first call (run.ts:210-243).
getLifecycleClient_recall(p) ==
  /\ rpc = "done"
  /\ \A s \in Slots : calls[s].pc \in { "idle", "done" }
  /\ hist.recalls < MaxRecalls
  /\ hist' = [prev |-> Summary(IdleCall), recalls |-> hist.recalls + 1,
              prevRun |-> runPerm.state]
  /\ platform' = p
  /\ runPerm' = NoEntry
  /\ readEntries' = <<>>
  /\ binProbe' = "none"
  /\ resLog' = <<>>
  /\ calls' = [s \in Slots |-> IdleCall]
  /\ opsStarted' = 0
  /\ IF p = Host
     THEN /\ rpc' = "done"
          /\ client' = [kind |-> "noop", platform |-> p, binName |-> <<>>, info |-> NoInfo]
          /\ resolved' = [outcome |-> "returned", error |-> NoError]
     ELSE /\ rpc' = "runPerm"
          /\ client' = NoClient
          /\ resolved' = [outcome |-> "none", error |-> NoError]
  /\ UNCHANGED << os, adapter >>

\* The platforms resolved when the history is kept: the no-op client, a CLI
\* or Docker-API socket client, a CLI client without create or a stub socket.
HistoryPlatforms == { "Host", "Docker", "KubernetesCriO" }

\* The container operated on when the history is kept.
HistoryIds == { <<"a", "b", "c">> }

Remember(s) ==
  /\ hist' = [hist EXCEPT !.prev = Summary(calls[s])]
  /\ UNCHANGED adapter

\* Resolutions and operations with the history of the previous ones.
NextHistory ==
  \/ \E p \in HistoryPlatforms : getLifecycleClient_call(p) /\ UNCHANGED << hist, adapter >>
  \/ \E p \in HistoryPlatforms : getLifecycleClient_recall(p)
  \/ getLifecycleClient_runPerm /\ UNCHANGED << hist, adapter >>
  \/ checkReadPermissions_windows /\ UNCHANGED << hist, adapter >>
  \/ checkReadPermissions_query /\ UNCHANGED << hist, adapter >>
  \/ checkReadPermissions_return /\ UNCHANGED << hist, adapter >>
  \/ getLifecycleClient_select /\ UNCHANGED << hist, adapter >>
  \/ \E s \in Slots, op \in OpNames, id \in HistoryIds, image \in Images :
       \/ Noop_call(s, op, id, image) /\ Remember(s)
       \/ Cli_call(s, op, id, image) /\ Remember(s)
       \/ Socket_call(s, op, id, image) /\ Remember(s)
  \/ \E s \in Slots :
       \/ checkCommandCapability_spawn(s) /\ UNCHANGED << hist, adapter >>
       \/ checkCommandCapability_wait(s) /\ UNCHANGED << hist, adapter >>
       \/ runSubprocess_output(s) /\ UNCHANGED << hist, adapter >>
       \/ Socket_fetch(s) /\ UNCHANGED << hist, adapter >>
       \/ httpToCommandOutput_body(s) /\ UNCHANGED << hist, adapter >>

SpecHistory == Init /\ [][NextHistory]_vars

\* Two operations in progress at once on the same client: each awaits its
\* own promises, and the event loop interleaves their steps in any order.
ConcurrentSlots == { 1, 2 }

InitConcurrent ==
  /\ hist = NoHist
  /\ adapter = NoAdapter
  /\ os \in OsFamilies
  /\ rpc = "idle"
  /\ platform = "none"
  /\ runPerm = NoEntry
  /\ readEntries = <<>>
  /\ binProbe = "none"
  /\ resLog = <<>>
  /\ resolved = [outcome |-> "none", error |-> NoError]
  /\ client = NoClient
  /\ calls = [s \in ConcurrentSlots |-> IdleCall]
  /\ opsStarted = 0

\* The platforms resolved for concurrent operations.
ConcurrentPlatforms == { "Host", "Docker", "KubernetesCriO" }

\* The two callers operate on different containers.
ContainerIdOf(s) == IF s = 1 THEN <<"a", "b", "c">> ELSE <<"a", "/", "b">>

NextConcurrent ==
  \/ \E p \in ConcurrentPlatforms : getLifecycleClient_call(p) /\ UNCHANGED << hist, adapter >>
  \/ getLifecycleClient_runPerm /\ UNCHANGED << hist, adapter >>
  \/ checkReadPermissions_windows /\ UNCHANGED << hist, adapter >>
  \/ checkReadPermissions_query /\ UNCHANGED << hist, adapter >>
  \/ checkReadPermissions_return /\ UNCHANGED << hist, adapter >>
  \/ getLifecycleClient_select /\ UNCHANGED << hist, adapter >>
  \/ \E s \in ConcurrentSlots, op \in OpNames, image \in Images :
       \/ Noop_call(s, op, ContainerIdOf(s), image) /\ UNCHANGED << hist, adapter >>
       \/ Cli_call(s, op, ContainerIdOf(s), image) /\ UNCHANGED << hist, adapter >>
       \/ Socket_call(s, op, ContainerIdOf(s), image) /\ UNCHANGED << hist, adapter >>
  \/ \E s \in ConcurrentSlots :
       \/ checkCommandCapability_spawn(s) /\ UNCHANGED << hist, adapter >>
       \/ checkCommandCapability_wait(s) /\ UNCHANGED << hist, adapter >>
       \/ runSubprocess_output(s) /\ UNCHANGED << hist, adapter >>
       \/ Socket_fetch(s) /\ UNCHANGED << hist, adapter >>
       \/ httpToCommandOutput_body(s) /\ UNCHANGED << hist, adapter >>

SpecConcurrent == InitConcurrent /\ [][NextConcurrent]_vars

-----------------------------------------------------------------------------
(* src/clients: the factory and the adapters *)

lifecycleVars ==
  << os, rpc, platform, runPerm, readEntries, binProbe, resLog, resolved,
     client, calls, opsStarted, hist >>

\* The outcome of `new <class>(opts)` recorded in the adapter.
Constructed(a, class, g) ==
  LET a1 == [a EXCEPT !.selected = class,
                      !.grpc = IF UsesGrpc(class) THEN g ELSE "none"]
  IN IF ConstructorThrows(class, g)
     THEN [a1 EXCEPT !.outcome = "threw", !.error = ConstructorError(g)]
     ELSE [a1 EXCEPT !.outcome = "returned", !.class = class]

\* mod.ts:24-63, 84-116  clientFactory(platform, opts)
clientFactory(variant, ptype, runtime, g) ==
  /\ adapter.pc = "idle"
  /\ LET class == clientClass(variant, ptype, runtime)
         a == [NoAdapter EXCEPT !.pc = "made", !.variant = variant,
                                !.ptype = ptype, !.runtime = runtime]
     IN adapter' = IF class = NoClass
                   THEN [a EXCEPT !.outcome = "threw",
                                  !.error = factoryMessage(ptype, runtime)]
                   ELSE Constructed(a, class, g)
  /\ UNCHANGED lifecycleVars

\* new LxcClient(opts), new CrioClient(opts), new LxdClient(opts) by a caller
newClient(class, g) ==
  /\ adapter.pc = "idle"
  /\ class \in RestartComposers
  /\ LET a == Constructed(NoAdapter, class, g)
     IN adapter' = [a EXCEPT !.pc = IF a.outcome = "returned" THEN "ready" ELSE "made"]
  /\ UNCHANGED lifecycleVars

\* Variant: a failed stop is ignored and start is invoked all the same.
StopBlocksStart_never(r) == FALSE

\* lxc.ts:79, crio.ts:97, lxd.ts:309  `await this.stop(id)` rejects: restart rejects
StopBlocksStart(r) == ~r.ok

\* lxc.ts:78-79, crio.ts:96-97, lxd.ts:308-309  restart(id) invokes stop(id)
restart_call(id) ==
  /\ adapter.pc = "ready"
  /\ adapter.class \in RestartComposers
  /\ adapter.restarts < MaxRestarts
  /\ adapter' = [adapter EXCEPT
                   !.pc = "stopping", !.id = id, !.restarts = @ + 1,
                   !.restart = "none", !.result = NoSettled,
                   !.log = << InvokeEv("stop", AdapterRequest(adapter.class, "stop", id)) >>]
  /\ UNCHANGED lifecycleVars

\* lxc.ts:79-80, crio.ts:97-98, lxd.ts:309-310  stop settles; start(id) is invoked
restart_stopSettled ==
  /\ adapter.pc = "stopping"
  /\ \E answer \in AdapterAnswers(adapter.class) :
       LET r == SettledBy(answer)
           log1 == Append(adapter.log, SettleEv("stop", answer))
       IN adapter' =
            IF StopBlocksStart(r)
            THEN [adapter EXCEPT !.pc = "ready", !.restart = "threw", !.result = r,
                                 !.log = log1]
            ELSE [adapter EXCEPT
                    !.pc = "starting",
                    !.log = Append(log1, InvokeEv("start",
                                     AdapterRequest(adapter.class, "start", adapter.id)))]
  /\ UNCHANGED lifecycleVars

\* lxc.ts:80, crio.ts:98, lxd.ts:310  `return this.start(id)`
restart_startSettled ==
  /\ adapter.pc = "starting"
  /\ \E answer \in AdapterAnswers(adapter.class) :
       LET r == SettledBy(answer)
       IN adapter' = [adapter EXCEPT
                        !.pc = "ready",
                        !.restart = IF r.ok THEN "returned" ELSE "threw",
                        !.result = r,
                        !.log = Append(@, SettleEv("start", answer))]
  /\ UNCHANGED lifecycleVars

NextAdapters ==
  \/ \E variant \in FactoryVariants, ptype \in PlatformTypes, runtime \in Runtimes,
        g \in GrpcLoadOutcomes : clientFactory(variant, ptype, runtime, g)
  \/ \E class \in RestartComposers, g \in GrpcLoadOutcomes : newClient(class, g)
  \/ \E id \in AdapterIds : restart_call(id)
  \/ restart_stopSettled
  \/ restart_startSettled

SpecAdapters == Init /\ [][NextAdapters]_vars

-----------------------------------------------------------------------------
(* Properties of the resolution *)

Resolving == platform # "none"

GrantedIndexes == { i \in 1..Len(readEntries) : readEntries[i].state = "granted" }

SetMin(S) == CHOOSE m \in S : \A n \in S : m <= n

ReadProbes(log) == { i \in Events(log, "permQuery") : log[i].name = "read" }

\* C1: for a platform other than Host, when checkRunPermission reports denied
\* or error, getLifecycleClient throws, no client exists, and the call has
\* probed no socket path and no binary.
C1_NoSocketFallbackWithoutRunPermission ==
  (Resolving /\ platform # Host /\ runPerm # NoEntry /\ runPerm.state # "granted")
    => /\ rpc = "done"
       /\ resolved.outcome = "threw"
       /\ client = NoClient
       /\ ReadProbes(resLog) = {}
       /\ Events(resLog, "spawn") = {}
       /\ readEntries = <<>>
       /\ binProbe = "none"

C1_Witness ==
  /\ rpc = "done"
  /\ platform = "Podman"
  /\ runPerm.state = "denied"
  /\ resolved.outcome = "threw"

\* C2: for a platform other than Host with the run permission granted, when
\* isExecutable reports the binary present the call returns a CLI client for
\* getBinName(platform), whatever the read verdicts of the socket paths are.
C2_CliPreferred ==
  (rpc = "done" /\ platform # Host /\ runPerm.state = "granted"
     /\ binProbe # "none" /\ isExecutable(binProbe))
    => /\ resolved.outcome = "returned"
       /\ client.kind = "cli"
       /\ client.platform = platform
       /\ client.binName = getBinName(platform)

C2_Witness ==
  /\ rpc = "done"
  /\ platform = "Podman"
  /\ binProbe = "exit0"
  /\ GrantedIndexes = { 1, 2 }
  /\ client.kind = "cli"

\* C3: when the binary is absent and at least one candidate has a granted
\* read verdict, the socket client is bound to the granted candidate with the
\* smallest index in SOCKET_PATHS[platform].
C3_FirstGrantedSocketWins ==
  (rpc = "done" /\ binProbe = "NotFound" /\ GrantedIndexes # {})
    => /\ resolved.outcome = "returned"
       /\ client.kind = "socket"
       /\ client.info = SOCKET_PATHS(platform)[SetMin(GrantedIndexes)]

C3_Witness ==
  /\ rpc = "done"
  /\ binProbe = "NotFound"
  /\ platform = "Podman"
  /\ GrantedIndexes = { 1, 2 }
  /\ client.kind = "socket"
  /\ client.info.path = <<"/run/podman/podman.sock">>

\* C4: getLifecycleClient(Host) returns a client without any permission
\* query, read probe or spawn, and every operation of that client returns
\* code 0, success true and empty output without any I/O.
C4_HostIsNoop ==
  (platform = Host)
    => /\ rpc = "done"
       /\ resolved.outcome = "returned"
       /\ client.kind = "noop"
       /\ resLog = <<>>
       /\ runPerm = NoEntry
       /\ readEntries = <<>>
       /\ binProbe = "none"
       /\ \A s \in Slots :
            calls[s].pc # "idle"
              => /\ calls[s].pc = "done"
                 /\ calls[s].outcome = "returned"
                 /\ calls[s].result.code = 0
                 /\ calls[s].result.success
                 /\ calls[s].result.stdout = "empty"
                 /\ calls[s].result.stderr = "empty"
                 /\ calls[s].log = <<>>

C4_Witness ==
  /\ platform = Host
  /\ opsStarted >= 2
  /\ calls[1].pc = "done"
  /\ calls[1].op = "stop"

-----------------------------------------------------------------------------
(* Properties of the CLI client *)

Started(s) == calls[s].pc # "idle"

SpawnsBy(log, by) == { i \in Events(log, "spawn") : log[i].by = by }

ProbeFinished(s) == calls[s].permCheck # NoEntry

\* C5: a CLI operation builds its argument vector once, has
\* checkCommandCapability judge the bound binary with exactly that vector,
\* spawns the real subprocess with the same vector only after a granted
\* verdict, and on any other verdict throws an error carrying the verdict's
\* state and message without spawning the real subprocess.
C5_ProbeThenExecute ==
  \A s \in Slots :
    (client.kind = "cli" /\ Started(s)) =>
      LET c == calls[s] IN
      /\ c.args = getArgBuilders(client.platform, c.op, c.id, c.image)
      /\ ProbeFinished(s) => c.permCheck.name = CapabilityName(client.binName, c.args)
      /\ \A i \in SpawnsBy(c.log, "runSubprocess") :
           /\ c.permCheck.state = "granted"
           /\ c.log[i].program = client.binName
           /\ c.log[i].args = c.args
           /\ i = Len(c.log)
           /\ \E j \in Events(c.log, "permQuery") : j < i
      /\ c.pc = "run" => c.permCheck.state = "granted"
      /\ (ProbeFinished(s) /\ c.permCheck.state = "granted" /\ c.pc = "done")
           => Cardinality(SpawnsBy(c.log, "runSubprocess")) = 1
      /\ (ProbeFinished(s) /\ c.permCheck.state # "granted")
           => /\ c.pc = "done"
              /\ c.outcome = "threw"
              /\ c.error.kind = "CapabilityNotGranted"
              /\ c.error.state = c.permCheck.state
              /\ c.error.message = c.permCheck.message
              /\ SpawnsBy(c.log, "runSubprocess") = {}

C5_Witness ==
  /\ client.kind = "cli"
  /\ client.binName = <<"docker">>
  /\ calls[1].op = "status"
  /\ calls[1].args = << <<"inspect">>, <<"a", "b", "c">> >>
  /\ calls[1].pc = "done"
  /\ calls[1].outcome = "returned"
  /\ SpawnsBy(calls[1].log, "runSubprocess") # {}

\* C6: checkCommandCapability returns granted whenever the probe process was
\* spawned and exited, for exit code zero and for a non-zero exit code.
C6_ExitedProbeIsGranted ==
  \A s \in Slots :
    \A i \in Events(calls[s].log, "wait") :
      (calls[s].log[i].answer \in { "exit0", "exit1" } /\ ProbeFinished(s))
        => calls[s].permCheck.state = "granted"

\* C7: the capability probe spawns the program bin with the argument vector
\* args, the same command runSubprocess(bin, args) spawns afterwards.
C7_ProbeSpawnsTheRealCommand ==
  \A s \in Slots :
    \A i \in SpawnsBy(calls[s].log, "probe") :
      /\ calls[s].log[i].program = client.binName
      /\ calls[s].log[i].args = calls[s].args

-----------------------------------------------------------------------------
(* Properties of create and of the socket client *)

CliCreateUnsupported ==
  { "CRIO", "KubernetesCriO", "Containerd", "KubernetesOther", "Rkt", "LXCLXD",
    "SystemdNspawn" }

\* C9: create on a client whose create builder is registered as unsupported
\* (a CLI createArgs that returns null, a socket candidate whose builder
\* throws) fails with a not-supported error before any I/O: no probe, no
\* subprocess and no request.
C9_UnsupportedCreateFailsBeforeIO ==
  \A s \in Slots :
    LET c == calls[s] IN
    (Started(s) /\ c.op = "create"
       /\ \/ client.kind = "cli" /\ client.platform \in CliCreateUnsupported
          \/ client.kind = "socket" /\ client.info.api # "docker")
      => /\ c.pc = "done"
         /\ c.outcome = "threw"
         /\ c.error.kind = "UnsupportedOperation"
         /\ c.log = <<>>

C9_Witness ==
  /\ client.kind = "cli"
  /\ client.platform = "CRIO"
  /\ calls[1].op = "create"
  /\ calls[1].pc = "done"
  /\ calls[1].outcome = "threw"

Responses(log) == { i \in Events(log, "fetch") : log[i].answer.responded }

\* C10 as stated: a socket operation returns a non-2xx response as success
\* false with the status as code and a 2xx response as success true with code
\* 0, and it raises only when the request itself got no response.
C10_Original ==
  \A s \in Slots :
    LET c == calls[s] IN
    (client.kind = "socket" /\ c.pc = "done") =>
      /\ c.outcome = "threw"
           => \E i \in Events(c.log, "fetch") : ~c.log[i].answer.responded
      /\ \A i \in Responses(c.log) :
           /\ c.outcome = "returned"
           /\ c.result.success = ResponseOk(c.log[i].answer.status)
           /\ c.result.code = IF ResponseOk(c.log[i].answer.status)
                              THEN 0 ELSE c.log[i].answer.status

\* C10 amended: once the response and its body have been received, a non-2xx
\* status is returned as success false with the status as code and a 2xx
\* status as success true with code 0; the operation raises only when its
\* request builder signals not supported (no request is issued), when the
\* request gets no response, or when reading the response body fails.
C10_ResponsesAreResults ==
  \A s \in Slots :
    LET c == calls[s] IN
    (client.kind = "socket" /\ c.pc = "done") =>
      /\ c.outcome = "threw"
           => \/ c.error.kind = "UnsupportedOperation" /\ c.log = <<>>
              \/ \E i \in Events(c.log, "fetch") : ~c.log[i].answer.responded
              \/ \E i \in Events(c.log, "body") : ~c.log[i].ok
      /\ \A i \in Responses(c.log) :
           (\E j \in Events(c.log, "body") : c.log[j].ok)
             => /\ c.outcome = "returned"
                /\ c.result.success = ResponseOk(c.log[i].answer.status)
                /\ c.result.code = IF ResponseOk(c.log[i].answer.status)
                                   THEN 0 ELSE c.log[i].answer.status
      /\ c.outcome = "returned"
           => /\ Cardinality(Responses(c.log)) = 1
              /\ c.result.success <=> c.result.code = 0

C10_Witness ==
  /\ client.kind = "socket"
  /\ calls[1].pc = "done"
  /\ calls[1].outcome = "returned"
  /\ calls[1].result.code = 404
  /\ ~calls[1].result.success

-----------------------------------------------------------------------------
(* Properties of a failed resolution *)

Mentions(text, piece) == \E i \in 1..Len(text) : text[i] = piece

BinaryAbsentNothingReadable ==
  /\ rpc = "done"
  /\ platform # Host
  /\ runPerm.state = "granted"
  /\ binProbe = "NotFound"
  /\ GrantedIndexes = {}

\* C11: for a platform other than Host with the run permission granted, when
\* the binary is absent and no candidate has a granted read verdict (also when
\* there is no candidate), getLifecycleClient throws, no client exists, and
\* the error names the missing binary and says that no socket is readable.
C11_NothingReachableThrows ==
  BinaryAbsentNothingReadable
    => /\ resolved.outcome = "threw"
       /\ client = NoClient
       /\ resolved.error.kind = "NothingReachable"
       /\ Mentions(resolved.error.message, getBinName(platform)[1])
       /\ Mentions(resolved.error.message, "\" found nor any socket is readable for ")

C11_Witness ==
  /\ BinaryAbsentNothingReadable
  /\ platform = "SystemdNspawn"
  /\ os = "linux"
  /\ resolved.outcome = "threw"

\* C12: when the binary is absent and no candidate is granted, the error of
\* getLifecycleClient names the binary and carries the number of socket
\* candidates that were tried.
C12_ErrorCarriesCandidateCount ==
  BinaryAbsentNothingReadable
    => /\ Mentions(resolved.error.message, getBinName(platform)[1])
       /\ Mentions(resolved.error.message, ToString(Len(CandidatePaths(platform))))

-----------------------------------------------------------------------------
(* Properties of the kubeconfig candidate *)

KubeconfigIsTheReadableCandidate ==
  /\ rpc = "done"
  /\ binProbe = "NotFound"
  /\ Len(readEntries) = 2
  /\ \/ /\ platform \in { "KubernetesCriO", "KubernetesOther" }
        /\ readEntries[1].state = "granted"
     \/ /\ platform = "KubernetesDocker"
        /\ readEntries[1].state # "granted"
        /\ readEntries[2].state = "granted"

\* C13: for a Kubernetes platform whose readable candidate is the kubeconfig
\* path and whose binary is absent, getLifecycleClient returns a socket client
\* bound to that path, and every operation on it fails with a not-supported
\* error without issuing any request.
C13_KubeconfigResolvesButOperationsFail ==
  KubeconfigIsTheReadableCandidate
    => /\ resolved.outcome = "returned"
       /\ client.kind = "socket"
       /\ client.info.path = getKubeConfigPath
       /\ \A s \in Slots :
            Started(s)
              => /\ calls[s].pc = "done"
                 /\ calls[s].outcome = "threw"
                 /\ calls[s].error.kind = "UnsupportedOperation"
                 /\ calls[s].log = <<>>

C13_Witness ==
  /\ KubeconfigIsTheReadableCandidate
  /\ platform = "KubernetesDocker"
  /\ client.kind = "socket"
  /\ calls[1].op = "status"
  /\ calls[1].outcome = "threw"
  /\ opsStarted = 2

-----------------------------------------------------------------------------
(* Properties of a constructed client *)

UsesOnlySubprocesses(c, cl) ==
  /\ Events(c.log, "fetch") = {}
  /\ Events(c.log, "body") = {}
  /\ \A i \in Events(c.log, "spawn") :
       \/ c.log[i].program = cl.binName
       \/ c.log[i].program = DenoExecPath /\ c.log[i].args[1] = cl.binName

UsesOnlyTheSocket(c, cl) ==
  /\ Events(c.log, "spawn") = {}
  /\ Events(c.log, "permQuery") = {}
  /\ \A i \in Events(c.log, "fetch") : c.log[i].path = cl.info.path

\* C14: after construction the transport of a client never changes, whatever
\* operations succeed or fail: a CLI client keeps its binary and only spawns
\* subprocesses, never issuing a request; a socket client keeps its path and
\* never spawns a subprocess.
C14_TransportNeverChanges ==
  [][ client.kind # "none"
        => /\ client' = client
           /\ \A s \in Slots :
                /\ client.kind = "cli" => UsesOnlySubprocesses(calls'[s], client)
                /\ client.kind = "socket" => UsesOnlyTheSocket(calls'[s], client)
                /\ client.kind = "noop" => calls'[s].log = <<>> ]_vars

C14_Witness ==
  /\ client.kind = "cli"
  /\ GrantedIndexes # {}
  /\ opsStarted = 2
  /\ calls[1].pc = "done"
  /\ calls[1].error.kind = "CapabilityNotGranted"

-----------------------------------------------------------------------------
(* Properties of the probes of a resolution *)

BinaryProbes(log) == SpawnsBy(log, "isExecutable")

\* C16: socket candidates are not considered once the binary is found: a
\* resolution in which the binary is present performs no read probe, and a
\* socket path is probed only after the binary probe has reported NotFound.
C16_SocketsProbedOnlyAfterBinaryAbsent ==
  /\ (binProbe \notin { "none", "NotFound" }) => ReadProbes(resLog) = {}
  /\ \A i \in ReadProbes(resLog) :
       \E j \in BinaryProbes(resLog) : j < i /\ resLog[j].answer = "NotFound"

ReadPhaseOver == rpc = "bin" \/ (rpc = "done" /\ binProbe # "none")

\* C17: on a system other than Windows checkReadPermissions returns one
\* verdict per input path in input order, the i-th carrying paths[i] whatever
\* its state; on Windows it returns the empty sequence and probes no path.
C17_OneVerdictPerPathInOrder ==
  /\ (Resolving /\ os # "windows") =>
       /\ Len(readEntries) <= Len(CandidatePaths(platform))
       /\ ReadPhaseOver => Len(readEntries) = Len(CandidatePaths(platform))
       /\ Cardinality(ReadProbes(resLog)) = Len(readEntries)
       /\ \A i \in 1..Len(readEntries) :
            /\ readEntries[i].path = CandidatePaths(platform)[i]
            /\ readEntries[i].name = <<"read">>
            /\ readEntries[i].state \in { "granted", "denied", "error" }
  /\ os = "windows" => readEntries = <<>> /\ ReadProbes(resLog) = {}

C17_Witness ==
  /\ ReadPhaseOver
  /\ os = "linux"
  /\ platform = "LXCLXD"
  /\ readEntries[1].state = "error"
  /\ readEntries[2].state = "denied"
  /\ readEntries[2].path = <<"/var/lib/lxd/unix.socket">>

\* C18: isExecutable reports the binary absent only when the spawn fails with
\* NotFound; after every other outcome (exit zero, exit non-zero, a failed
\* wait, PermissionDenied, any other error) the resolver returns a CLI client
\* and does not fall back to a readable socket.
C18_OnlyNotFoundIsAbsent ==
  rpc = "done" =>
    /\ binProbe \in { "exit0", "exit1", "waitFailed", "PermissionDenied", "OtherError" }
         => client.kind = "cli" /\ client.binName = getBinName(platform)
    /\ binProbe = "NotFound" => client.kind # "cli"

C18_Witness ==
  /\ rpc = "done"
  /\ binProbe = "PermissionDenied"
  /\ GrantedIndexes # {}
  /\ client.kind = "cli"

-----------------------------------------------------------------------------
(* Properties of the number of attempts *)

RunQueries(log) == { i \in Events(log, "permQuery") : log[i].name = "run" }

ReadProbesOf(log, path) == { i \in ReadProbes(log) : log[i].path = path }

AtMostOne(S) == Cardinality(S) <= 1

\* C19: nothing is retried.  One getLifecycleClient call queries the run
\* permission at most once, read-probes each candidate path at most once and
\* spawns the binary probe at most once; one CLI operation spawns at most one
\* pre-flight probe and at most one real subprocess; one socket operation
\* issues at most one request, also when the attempt fails.
C19_SingleAttempt ==
  /\ AtMostOne(RunQueries(resLog))
  /\ AtMostOne(BinaryProbes(resLog))
  /\ \A i \in ReadProbes(resLog) : AtMostOne(ReadProbesOf(resLog, resLog[i].path))
  /\ \A s \in Slots :
       /\ AtMostOne(RunQueries(calls[s].log))
       /\ AtMostOne(SpawnsBy(calls[s].log, "probe"))
       /\ AtMostOne(SpawnsBy(calls[s].log, "runSubprocess"))
       /\ AtMostOne(Events(calls[s].log, "wait"))
       /\ AtMostOne(Events(calls[s].log, "fetch"))
       /\ AtMostOne(Events(calls[s].log, "body"))
       /\ (calls[s].outcome = "threw" /\ calls[s].error.kind = "TransportError"
             /\ Events(calls[s].log, "body") = {})
            => /\ calls[s].pc = "done"
               /\ Cardinality(Events(calls[s].log, "fetch")) = 1

C19_Witness ==
  /\ client.kind = "socket"
  /\ calls[1].pc = "done"
  /\ calls[1].outcome = "threw"
  /\ \E i \in Events(calls[1].log, "fetch") : ~calls[1].log[i].answer.responded
  /\ Cardinality(ReadProbes(resLog)) = 2
  /\ Cardinality(BinaryProbes(resLog)) = 1

-----------------------------------------------------------------------------
(* Properties of consecutive operations and resolutions *)

Failed(c) ==
  \/ c.outcome = "threw"
  \/ c.outcome = "returned" /\ ~c.success

\* The start of an operation on a client that has done nothing before: no
\* I/O yet, no verdict, and nothing but what the operation's own arguments
\* give.
FreshStart(c, cl) ==
  /\ c.log = <<>>
  /\ c.permCheck = NoEntry
  /\ c.httpStatus = 0
  /\ cl.kind = "noop"
       => c.pc = "done" /\ c.outcome = "returned" /\ c.result = CommandOutput(0, TRUE, "empty", "empty")
            /\ c.error = NoError
  /\ cl.kind = "cli"
       => /\ c.args = getArgBuilders(cl.platform, c.op, c.id, c.image)
          /\ c.request = NoRequest
          /\ c.result = NoResult
          /\ IF c.op = "create" /\ cl.platform \in CliCreateUnsupported
             THEN c.pc = "done" /\ c.outcome = "threw"
                    /\ c.error.kind = "UnsupportedOperation"
             ELSE c.pc = "capability" /\ c.outcome = "none" /\ c.error = NoError
  /\ cl.kind = "socket"
       => /\ c.args = <<>>
          /\ c.result = NoResult
          /\ IF cl.info.api = "docker"
             THEN c.pc = "fetch" /\ c.outcome = "none" /\ c.error = NoError
                    /\ c.request = DockerApiRequest(c.op, c.id, c.image)
             ELSE c.pc = "done" /\ c.outcome = "threw"
                    /\ c.error.kind = "UnsupportedOperation"

StartsOperation(s) ==
  \E op \in OpNames, id \in ContainerIds, image \in Images :
    \/ Noop_call(s, op, id, image)
    \/ Cli_call(s, op, id, image)
    \/ Socket_call(s, op, id, image)

\* C15: a failed operation (a thrown error or a result with success false)
\* leaves the client usable: a further operation can be started, and it
\* starts exactly as on a freshly resolved client, with nothing of the
\* earlier operations left in it.
C15_FailureDoesNotPoisonTheClient ==
  /\ [] (\A s \in Slots :
           (client.kind # "none" /\ calls[s].pc = "done" /\ opsStarted < MaxOps)
             => ENABLED StartsOperation(s))
  /\ [][ \A s \in Slots :
           (opsStarted' = opsStarted + 1 /\ calls'[s] # calls[s])
             => FreshStart(calls'[s], client) ]_vars

C15_Witness ==
  /\ Failed(hist.prev)
  /\ hist.prev.verdict = "error"
  /\ client.kind = "cli"
  /\ calls[1].pc = "done"
  /\ calls[1].outcome = "returned"
  /\ calls[1].result.success

SameVectorAsBefore(c) ==
  /\ hist.prev.verdict # "none"
  /\ hist.prev.args = c.args

\* C20: no permission verdict is cached.  Every CLI operation whose probe has
\* ended made its own permission query, and when the verdict for an argument
\* vector differs from the verdict the previous operation got for the same
\* vector, the outcome follows the new verdict; every getLifecycleClient call
\* queries the run permission itself and follows the answer it got, whatever
\* the previous call got.
C20_VerdictsAreNeverCached ==
  /\ \A s \in Slots :
       LET c == calls[s] IN
       (client.kind = "cli" /\ ProbeFinished(s)) =>
         /\ Cardinality(RunQueries(c.log)) = 1
         /\ c.permCheck.state = "granted"
              => \E i \in Events(c.log, "wait") : c.log[i].answer = "exit0"
         /\ (SameVectorAsBefore(c) /\ hist.prev.verdict = "granted"
               /\ c.permCheck.state # "granted")
              => /\ c.outcome = "threw"
                 /\ c.error.kind = "CapabilityNotGranted"
                 /\ c.error.state = c.permCheck.state
                 /\ SpawnsBy(c.log, "runSubprocess") = {}
         /\ (SameVectorAsBefore(c) /\ hist.prev.verdict # "granted"
               /\ c.permCheck.state = "granted")
              => /\ c.pc \in { "run", "done" }
                 /\ c.error.kind # "CapabilityNotGranted"
                 /\ c.pc = "done" => SpawnsBy(c.log, "runSubprocess") # {}
  /\ (hist.recalls > 0 /\ platform # Host /\ rpc \notin { "idle", "runPerm" }) =>
       /\ Cardinality(RunQueries(resLog)) = 1
       /\ runPerm.state # "granted"
            => rpc = "done" /\ resolved.outcome = "threw" /\ client = NoClient
       /\ (runPerm.state = "granted" /\ rpc = "done")
            => Cardinality(BinaryProbes(resLog)) = 1
       /\ (rpc = "done" /\ os # "windows")
            => Cardinality(ReadProbes(resLog))
                 = (IF runPerm.state = "granted" THEN Len(CandidatePaths(platform)) ELSE 0)

C20_Witness ==
  /\ client.kind = "cli"
  /\ hist.recalls = 1
  /\ hist.prevRun = "denied"
  /\ SameVectorAsBefore(calls[1])
  /\ hist.prev.verdict = "granted"
  /\ calls[1].permCheck.state = "denied"
  /\ calls[1].outcome = "threw"

-----------------------------------------------------------------------------
(* Properties of concurrent operations *)

\* What an operation that ran alone has done and returned, given the answers
\* the runtime gave to its own I/O: only its own vector or request was used.
AsIfAlone(c, cl) ==
  /\ cl.kind = "noop" => c.log = <<>> /\ c.outcome = "returned" /\ c.result = noop
  /\ cl.kind = "cli" =>
       LET args == getArgBuilders(cl.platform, c.op, c.id, c.image) IN
       /\ c.args = args
       /\ \A i \in SpawnsBy(c.log, "probe") :
            c.log[i].program = DenoExecPath /\ c.log[i].args = <<cl.binName>> \o args
       /\ \A i \in SpawnsBy(c.log, "runSubprocess") :
            c.log[i].program = cl.binName /\ c.log[i].args = args
       /\ c.permCheck # NoEntry => c.permCheck.name = CapabilityName(cl.binName, args)
       /\ c.outcome = "returned"
            => \E i \in SpawnsBy(c.log, "runSubprocess") :
                 /\ i = Len(c.log)
                 /\ c.result = runSubprocess(c.log[i].answer)
       /\ (c.outcome = "threw" /\ c.error.kind = "CapabilityNotGranted")
            => c.error.state = c.permCheck.state /\ c.error.message = c.permCheck.message
  /\ cl.kind = "socket" =>
       LET built == SocketOperation(cl.info, c.op, c.id, c.image) IN
       /\ built.throws => c.log = <<>> /\ c.outcome = "threw"
       /\ ~built.throws => c.request = built.request
       /\ \A i \in Events(c.log, "fetch") :
            /\ c.log[i].path = cl.info.path
            /\ c.log[i].method = built.request.method
            /\ c.log[i].url = <<"http://localhost">> \o built.request.url
            /\ c.log[i].body = built.request.body
       /\ c.outcome = "returned"
            => \E i \in Events(c.log, "fetch") :
                 /\ c.log[i].answer.responded
                 /\ c.result = httpToCommandOutput(c.log[i].answer.status)

\* C21: two operations running at once on the same client for different
\* containers do not interfere: in every interleaving each operation uses
\* only its own argument vector or request and returns the result its own
\* I/O gives, a step of one operation changes nothing of the other, and the
\* transport the client is bound to stays what it was.
C21_ConcurrentOperationsDoNotInterfere ==
  /\ [] (\A s \in DOMAIN calls :
           (client.kind # "none" /\ calls[s].pc # "idle") => AsIfAlone(calls[s], client))
  /\ [][ /\ client.kind # "none" => client' = client
         /\ \A s \in DOMAIN calls :
              calls'[s] # calls[s]
                => \A t \in DOMAIN calls \ { s } : calls'[t] = calls[t] ]_vars

C21_Witness ==
  /\ client.kind = "cli"
  /\ calls[1].pc = "run"
  /\ calls[1].op = "stop"
  /\ Len(calls[1].log) = 3
  /\ calls[2].pc = "capWait"
  /\ calls[2].op = "create"
  /\ Len(calls[2].log) = 2
  /\ calls[1].id # calls[2].id

-----------------------------------------------------------------------------
(* Properties of the lifecycle sequence *)

\* The run permission is granted whenever the operation asks for it.
RunPermissionGranted(c) ==
  /\ runPerm.state = "granted"
  /\ \A i \in RunQueries(c.log) : c.log[i].answer = "granted"

\* The engine accepts every command the operation gives it: a subprocess of
\* the bound binary exits with 0, a request is answered with a 2xx status
\* and its body arrives.
EngineAccepts(c, cl) ==
  /\ \A i \in Events(c.log, "spawn") :
       c.log[i].program = cl.binName => c.log[i].answer = "exit0"
  /\ \A i \in Events(c.log, "fetch") :
       c.log[i].answer.responded /\ ResponseOk(c.log[i].answer.status)
  /\ \A i \in Events(c.log, "body") : c.log[i].ok

\* C22: on a client resolved for a platform other than Host with the run
\* permission granted and an engine that accepts each command, every call of
\* the sequence create, status, start, status, stop returns, without
\* throwing, a result with success true and code 0.
C22_LifecycleSequenceSucceeds ==
  \A s \in Slots :
    LET c == calls[s] IN
    (platform # Host /\ client.kind # "none" /\ c.pc = "done"
       /\ RunPermissionGranted(c) /\ EngineAccepts(c, client))
      => /\ c.outcome = "returned"
         /\ c.result.success
         /\ c.result.code = 0

-----------------------------------------------------------------------------
(* Properties of the binary names and the argument builders *)

SameBuilders(p, q) ==
  \A op \in OpNames, id \in ContainerIds, image \in Images :
    getArgBuilders(p, op, id, image) = getArgBuilders(q, op, id, image)

BinaryNames ==
  { <<"docker">>, <<"podman">>, <<"crio">>, <<"ctr">>, <<"rkt">>, <<"lxc">>, <<"machinectl">> }

\* C23: getBinName gives exactly one binary name for every platform: docker
\* for Docker, DockerCgroup, KubernetesDocker, podman for Podman, crio for
\* CRIO and KubernetesCriO, ctr for Containerd and KubernetesOther, rkt for
\* Rkt, lxc for LXCLXD, machinectl for SystemdNspawn and docker for a value
\* without entry; platforms with the same binary name have the same argument
\* builders, a value without entry has those of Docker, and a resolved CLI
\* client and its operations use that name and those builders.
C23_OneBinaryNamePerPlatform ==
  /\ \A p \in Platforms :
       /\ getBinName(p) \in BinaryNames
       /\ p \in { "Docker", "DockerCgroup", "KubernetesDocker" } => getBinName(p) = <<"docker">>
       /\ p = "Podman" => getBinName(p) = <<"podman">>
       /\ p \in { "CRIO", "KubernetesCriO" } => getBinName(p) = <<"crio">>
       /\ p \in { "Containerd", "KubernetesOther" } => getBinName(p) = <<"ctr">>
       /\ p = "Rkt" => getBinName(p) = <<"rkt">>
       /\ p = "LXCLXD" => getBinName(p) = <<"lxc">>
       /\ p = "SystemdNspawn" => getBinName(p) = <<"machinectl">>
       /\ p \in { "Host", "Unmapped" }
            => getBinName(p) = <<"docker">> /\ SameBuilders(p, "Docker")
       /\ \A q \in Platforms : getBinName(p) = getBinName(q) => SameBuilders(p, q)
  /\ client.kind = "cli" =>
       /\ client.binName = getBinName(platform)
       /\ \A s \in Slots :
            Started(s) =>
              \A q \in Platforms :
                getBinName(q) = client.binName
                  => calls[s].args
                       = getArgBuilders(q, calls[s].op, calls[s].id, calls[s].image)

C23_Witness ==
  /\ client.kind = "cli"
  /\ platform = "KubernetesOther"
  /\ client.binName = <<"ctr">>
  /\ calls[1].op = "status"
  /\ calls[1].args = << <<"containers">>, <<"info">>, <<"a", "b", "c">> >>
  /\ calls[1].pc = "done"

-----------------------------------------------------------------------------
(* Properties of the returned client *)

\* The binary probe of this resolution ran and did not report NotFound.
BinaryFoundInThisResolution ==
  /\ Cardinality(BinaryProbes(resLog)) = 1
  /\ \A i \in BinaryProbes(resLog) :
       /\ resLog[i].program = getBinName(platform)
       /\ resLog[i].answer # "NotFound"

\* The path was read-probed in this resolution and the answer was granted.
GrantedInThisResolution(path) ==
  \E i \in ReadProbes(resLog) : resLog[i].path = path /\ resLog[i].answer = "granted"

\* C24: getLifecycleClient never returns a degraded client.  A client
\* returned for a platform other than Host is a CLI client for
\* getBinName(platform) whose presence probe in this resolution did not
\* report NotFound, or a socket client bound to an entry of
\* SOCKET_PATHS[platform] whose read verdict in this resolution is granted;
\* otherwise the call throws and no client exists.
C24_NoDegradedClient ==
  (rpc = "done" /\ platform # Host) =>
    \/ /\ resolved.outcome = "returned"
       /\ runPerm.state = "granted"
       /\ client.kind = "cli"
       /\ client.platform = platform
       /\ client.binName = getBinName(platform)
       /\ BinaryFoundInThisResolution
    \/ /\ resolved.outcome = "returned"
       /\ runPerm.state = "granted"
       /\ client.kind = "socket"
       /\ client.platform = platform
       /\ \E i \in 1..Len(SOCKET_PATHS(platform)) :
            /\ client.info = SOCKET_PATHS(platform)[i]
            /\ readEntries[i].state = "granted"
       /\ GrantedInThisResolution(client.info.path)
    \/ /\ resolved.outcome = "threw"
       /\ resolved.error # NoError
       /\ client = NoClient
       /\ \/ runPerm.state # "granted"
          \/ /\ binProbe = "NotFound"
             /\ \A i \in ReadProbes(resLog) : resLog[i].answer # "granted"

C24_Witness ==
  /\ rpc = "done"
  /\ platform = "KubernetesOther"
  /\ binProbe = "NotFound"
  /\ Len(readEntries) = 2
  /\ readEntries[1].state = "denied"
  /\ readEntries[2].state = "granted"
  /\ client.kind = "socket"
  /\ client.info.path = <<"/run/containerd/containerd.sock">>

-----------------------------------------------------------------------------
(* Properties of checkRunPermission *)

\* C25: checkRunPermission spawns no process and always returns an entry:
\* granted exactly when the run-permission query reports granted, denied for
\* every other reported state (an undecided prompt included), error with a
\* message when the query fails; so getLifecycleClient throws for a platform
\* other than Host when the run permission is undecided.
C25_RunPermissionVerdict ==
  (platform # Host /\ rpc \notin { "idle", "runPerm" }) =>
    /\ runPerm # NoEntry
    /\ runPerm.name = <<"run">>
    /\ Len(resLog) >= 1
    /\ resLog[1].ev = "permQuery"
    /\ resLog[1].name = "run"
    /\ RunQueries(resLog) = { 1 }
    /\ runPerm.state = "granted" <=> resLog[1].answer = "granted"
    /\ runPerm.state = "denied" <=> resLog[1].answer \in { "denied", "prompt" }
    /\ runPerm.state = "error" <=> resLog[1].answer = "throws"
    /\ runPerm.state = "error" <=> runPerm.message # NoMessage
    /\ runPerm.state # "granted" => Events(resLog, "spawn") = {}
    /\ resLog[1].answer = "prompt"
         => /\ rpc = "done"
            /\ resolved.outcome = "threw"
            /\ resolved.error.kind = "RunPermission"
            /\ resolved.error.state = "denied"
            /\ client = NoClient

C25_Witness ==
  /\ platform = "Docker"
  /\ rpc = "done"
  /\ Len(resLog) = 1
  /\ resLog[1].answer = "prompt"
  /\ runPerm.state = "denied"
  /\ resolved.outcome = "threw"

-----------------------------------------------------------------------------
(* Properties of the Docker socket client *)

DockerLike == { "Docker", "DockerCgroup", "KubernetesDocker" }

DockerSocketIsTheFallback ==
  /\ rpc = "done"
  /\ platform \in DockerLike
  /\ binProbe = "NotFound"
  /\ Len(readEntries) >= 1
  /\ readEntries[1].state = "granted"

RequestIssued(c) == c.pc \in { "body", "done" }

\* The one request of an operation: method, URL after the host, body.
IssuesExactly(c, method, url, hasBody, body) ==
  /\ Cardinality(Events(c.log, "fetch")) = 1
  /\ \A i \in Events(c.log, "fetch") :
       /\ c.log[i].path = <<"/var/run/docker.sock">>
       /\ c.log[i].method = method
       /\ c.log[i].url = <<"http://localhost">> \o url
       /\ c.log[i].hasBody = hasBody
       /\ c.log[i].body = body

StatusStartStopRequests(c) ==
  /\ c.op = "status"
       => IssuesExactly(c, "GET", <<"/containers/">> \o c.id \o <<"/json">>, FALSE, NoBody)
  /\ c.op = "start"
       => IssuesExactly(c, "POST", <<"/containers/">> \o c.id \o <<"/start">>, FALSE, NoBody)
  /\ c.op = "stop"
       => IssuesExactly(c, "POST", <<"/containers/">> \o c.id \o <<"/stop">>, FALSE, NoBody)

\* C26 as stated: for a Docker-like platform with the docker binary absent
\* and /var/run/docker.sock readable, the client is a socket client bound to
\* /var/run/docker.sock, and create(id, image) issues exactly one request
\* POST /containers/create?name=<id> with the JSON body {Image: image},
\* status GET /containers/<id>/json, start POST /containers/<id>/start and
\* stop POST /containers/<id>/stop.
C26_Original ==
  DockerSocketIsTheFallback =>
    /\ client.kind = "socket"
    /\ client.info.path = <<"/var/run/docker.sock">>
    /\ \A s \in Slots :
         LET c == calls[s] IN
         RequestIssued(c) =>
           /\ StatusStartStopRequests(c)
           /\ c.op = "create"
                => IssuesExactly(c, "POST", <<"/containers/create?name=">> \o c.id,
                                 TRUE, [Image |-> c.image])

\* C26 amended: the same, with the name in the query string of create being
\* encodeURIComponent(id), which is the id itself only when the id has no
\* character that encodeURIComponent escapes; the paths of status, start and
\* stop carry the id as it is.
C26_DockerSocketRequests ==
  DockerSocketIsTheFallback =>
    /\ client.kind = "socket"
    /\ client.info.path = <<"/var/run/docker.sock">>
    /\ \A s \in Slots :
         LET c == calls[s] IN
         /\ Started(s) => c.pc # "done" \/ c.log # <<>>
         /\ RequestIssued(c) =>
              /\ StatusStartStopRequests(c)
              /\ c.op = "create"
                   => IssuesExactly(c, "POST",
                                    <<"/containers/create?name=">> \o encodeURIComponent(c.id),
                                    TRUE, [Image |-> c.image])

C26_Witness ==
  /\ DockerSocketIsTheFallback
  /\ platform = "KubernetesDocker"
  /\ calls[1].op = "create"
  /\ calls[1].id = <<"a", "/", "b">>
  /\ calls[1].pc = "done"
  /\ \E i \in Events(calls[1].log, "fetch") :
       calls[1].log[i].url = <<"http://localhost", "/containers/create?name=", "a", "%2F", "b">>

-----------------------------------------------------------------------------
(* Properties of every returned result *)

\* C27: for every result an operation returns (not throws), on the no-op
\* client, the CLI client and the socket client, success is true exactly
\* when code is 0; a socket response that is not ok never gives code 0.
C27_SuccessIffCodeZero ==
  \A s \in Slots :
    LET c == calls[s] IN
    c.outcome = "returned" =>
      /\ c.result.success <=> c.result.code = 0
      /\ client.kind \in { "noop", "cli", "socket" }
      /\ \A i \in Responses(c.log) :
           ~ResponseOk(c.log[i].answer.status)
             => c.result.code # 0 /\ c.result.code = c.log[i].answer.status
      /\ \A i \in SpawnsBy(c.log, "runSubprocess") :
           c.result.code = 0 <=> c.log[i].answer = "exit0"

C27_Witness ==
  /\ client.kind = "socket"
  /\ calls[1].outcome = "returned"
  /\ calls[1].result.code = 301
  /\ ~calls[1].result.success
  /\ opsStarted = 2

-----------------------------------------------------------------------------
(* Properties of a resolution on Windows *)

\* C28: on Windows no socket fallback is reachable.  checkReadPermissions
\* returns the empty sequence without probing a path, so with the run
\* permission granted and the binary absent getLifecycleClient throws for
\* every platform, and a socket client is never returned.
C28_NoSocketFallbackOnWindows ==
  os = "windows" =>
    /\ readEntries = <<>>
    /\ ReadProbes(resLog) = {}
    /\ client.kind # "socket"
    /\ (rpc = "done" /\ platform # Host /\ runPerm.state = "granted"
          /\ binProbe = "NotFound")
         => /\ resolved.outcome = "threw"
            /\ resolved.error.kind = "NothingReachable"
            /\ client = NoClient

C28_Witness ==
  /\ os = "windows"
  /\ rpc = "done"
  /\ platform = "Docker"
  /\ runPerm.state = "granted"
  /\ binProbe = "NotFound"
  /\ resolved.outcome = "threw"

-----------------------------------------------------------------------------
(* Properties of clientFactory *)

SupportedPlatform(variant, ptype, runtime) ==
  \/ ptype = "Kubernetes"
  \/ /\ ptype = "Standalone"
     /\ \/ runtime \in { "Docker", "Podman", "Containerd", "LXC" }
        \/ runtime = "Crio" /\ variant = "registersCrio"

ExpectedClass(ptype, runtime) ==
  CASE ptype = "Kubernetes" -> "KubernetesClient"
    [] runtime = "Docker" -> "DockerClient"
    [] runtime = "Podman" -> "PodmanClient"
    [] runtime = "Containerd" -> "ContainerdClient"
    [] runtime = "LXC" -> "LxdClient"
    [] runtime = "Crio" -> "CrioClient"
    [] OTHER -> NoClass

FactoryCalled == adapter.pc = "made" /\ adapter.ptype # "none"

-----------------------------------------------------------------------------
(* Properties of restart *)

Invocations(log, op) == { i \in Events(log, "invoke") : log[i].op = op }

Settlements(log, op) == { i \in Events(log, "settle") : log[i].op = op }

RestartCalled == adapter.class \in RestartComposers /\ adapter.restarts > 0

\* C30: in LxcClient, CrioClient and the HTTP LxdClient restart(id) invokes
\* stop(id) first and start(id) only after stop has settled successfully.
\* When stop fails, restart fails with the error of stop and start is never
\* invoked; when stop succeeds, the result of restart is the result of start.
C30_RestartIsStopThenStart ==
  RestartCalled =>
    LET log == adapter.log IN
    /\ Invocations(log, "stop") = { 1 }
    /\ log[1].request = AdapterRequest(adapter.class, "stop", adapter.id)
    /\ \A i \in Invocations(log, "start") :
         /\ i = 3
         /\ log[2].ev = "settle" /\ log[2].op = "stop"
         /\ SettledBy(log[2].answer).ok
         /\ log[i].request = AdapterRequest(adapter.class, "start", adapter.id)
    /\ \A i \in Settlements(log, "stop") :
         IF SettledBy(log[i].answer).ok
         THEN /\ Invocations(log, "start") = { 3 }
              /\ adapter.pc = "starting" => adapter.restart = "none"
         ELSE /\ Invocations(log, "start") = {}
              /\ adapter.pc = "ready"
              /\ adapter.restart = "threw"
              /\ adapter.result = SettledBy(log[i].answer)
              /\ adapter.result.error # NoMessage
    /\ \A i \in Settlements(log, "start") :
         /\ i = 4
         /\ adapter.pc = "ready"
         /\ adapter.result = SettledBy(log[i].answer)
         /\ adapter.restart = IF adapter.result.ok THEN "returned" ELSE "threw"
    /\ adapter.restart = "returned"
         => Settlements(log, "start") = { 4 } /\ adapter.result.value = log[4].answer.payload
    /\ adapter.pc = "stopping" => Len(log) = 1 /\ adapter.restart = "none"

C30_Witness ==
  /\ RestartCalled
  /\ adapter.class = "LxdClient"
  /\ adapter.restarts = 2
  /\ adapter.restart = "returned"
  /\ Len(adapter.log) = 4
  /\ adapter.log[2].answer.payload = "p1"
  /\ adapter.log[4].answer.payload = "p2"
  /\ adapter.result.value = "p2"

=============================================================================
